---- MODULE Spec2Model ----
(***************************************************************************)
(* Model of the session tree (models/tree.py), of the session manager      *)
(* (controllers/session_manager.py), of the titles of a session            *)
(* (models/session.py), of the terminal surface's spawn and title          *)
(* (widgets/terminal.py) and of the sidebar's TreeStore                    *)
(* (controllers/sidebar.py, fed by main.py) of tree-style-terminal.        *)
(*                                                                         *)
(* A TerminalSession is identified by (pid, pty_fd) (session.py __eq__ and *)
(* __hash__); the manager gives both the value of its session counter, so  *)
(* a session is modelled by that number.  None is modelled by 0.  Equality *)
(* and hashing themselves are modelled on session objects whose pid and    *)
(* pty_fd are free (ident), used as keys of a dict (table).                *)
(***************************************************************************)
EXTENDS Integers, Sequences, FiniteSets, TLC

\* ------------------------------------------------------------------------
\* Bounds
\* ------------------------------------------------------------------------
MaxSessions == 4        \* session objects that exist
MaxCounter == 3         \* new_session calls in one run of the manager
MaxTitleLen == 6        \* characters in a window title a terminal reports
MaxLive == 2            \* new_session calls in a run checked for liveness
MaxPathLen == 5         \* characters in a working directory a session is built with

Sessions == 1..MaxSessions
None == 0

VARIABLES
    root_nodes,      \* SessionTree.root_nodes: list of sessions
    parent_map,      \* SessionTree._parent_map: dict session -> parent or None
    children,        \* TerminalSession.children of every session object
    current_session,    \* SessionManager.current_session
    session_terminals,  \* keys of SessionManager._session_terminals, in dict order
    session_counter,    \* SessionManager._session_counter
    idle_queue,         \* close_session tasks queued with GLib.idle_add
    exited,             \* sessions whose surface has had its child-exited signal
    events,             \* callbacks invoked by the last call, in order
    seen,               \* what each of those callbacks found when it was invoked:
                        \* the tree's parent map, the surface map, current_session
    ret,                \* what the last call returned: a session, or None
    spawn_state,        \* per session: its surface's spawn_async, "none" if no surface
    cwd,                \* TerminalSession.cwd of every session object
    title,              \* TerminalSession.title of every session object
    vte_title,          \* per session: the window title its Vte.Terminal reports
    vte_pid,            \* per session: VteTerminal.pid of its surface, None if unset
    sidebar,            \* the window's SidebarController: tree_store, _session_to_iter
    ident,              \* TerminalSession.pid and .pty_fd of every session object
    table,              \* a dict keyed by sessions: its entries, in insertion order
    found,              \* what the last lookup in that dict came to
    closed_calls,       \* per session: session-closed callbacks invoked for it so
                        \* far, in a run that counts them
    exc,             \* the exception the last call raised to its caller, or "none"
    call,            \* the last call made: operation and arguments
    pre,             \* the tree, the manager and call as they were before that call
    bad_adds         \* number of add_node calls so far that broke the caller's
                     \* contract (session already tracked, or parent untracked)

treeVars == <<root_nodes, parent_map, children>>
metaVars == <<spawn_state, cwd, title, vte_title, vte_pid>>
dictVars == <<ident, table, found>>
mgrVars == <<current_session, session_terminals, session_counter, idle_queue,
             exited, events, ret, metaVars, sidebar, dictVars, closed_calls, seen>>
vars == <<root_nodes, parent_map, children, current_session, session_terminals,
          session_counter, idle_queue, exited, events, ret, spawn_state, cwd,
          title, vte_title, vte_pid, sidebar, ident, table, found, closed_calls, seen, exc,
          call, pre, bad_adds>>

\* ------------------------------------------------------------------------
\* List helpers (Python list semantics)
\* ------------------------------------------------------------------------
Range(seq) == {seq[i] : i \in 1..Len(seq)}

\* x in list
In(x, seq) == \E i \in 1..Len(seq) : seq[i] = x

\* list.index(x) (1-based); only used when x is in the list
IndexOf(seq, x) == CHOOSE i \in 1..Len(seq) : seq[i] = x /\ \A j \in 1..(i-1) : seq[j] # x

ListRemoveFirstOnly(seq, x) ==
    IF In(x, seq)
    THEN LET i == IndexOf(seq, x)
         IN SubSeq(seq, 1, i-1) \o SubSeq(seq, i+1, Len(seq))
    ELSE seq

\* a remove_node that forgets to detach the session from its list
ListRemove_Forgotten(seq, x) == seq

\* list.remove(x) guarded by "if x in list": the first occurrence is deleted
ListRemove(seq, x) == ListRemoveFirstOnly(seq, x)

NoDup(seq) == \A i, j \in 1..Len(seq) : seq[i] = seq[j] => i = j

\* ------------------------------------------------------------------------
\* SessionTree queries
\* ------------------------------------------------------------------------
get_all_sessions == DOMAIN parent_map

get_parent(session) == IF session \in DOMAIN parent_map THEN parent_map[session] ELSE None

get_children(session) == children[session]

get_roots == root_nodes

is_empty == Len(root_nodes) = 0

\* session.pid is the session's number; pids are unique
find_session_by_pid(pid) ==
    IF \E s \in DOMAIN parent_map : s = pid
    THEN CHOOSE s \in DOMAIN parent_map : s = pid
    ELSE None

\* ------------------------------------------------------------------------
\* SessionTree.add_node
\* ------------------------------------------------------------------------
\* an add_node that records every new session as a root in the parent map
add_node_ParentLost(session, parent) ==
    /\ exc' = "none"
    /\ parent_map' = [s \in DOMAIN parent_map \cup {session} |->
                         IF s = session THEN None ELSE parent_map[s]]
    /\ IF parent = None
       THEN /\ root_nodes' = Append(root_nodes, session)
            /\ children' = children
       ELSE /\ root_nodes' = root_nodes
            /\ children' = [children EXCEPT ![parent] =
                              IF In(session, @) THEN @ ELSE Append(@, session)]

add_node(session, parent) ==
    /\ exc' = "none"
    /\ IF parent = None
       THEN
         /\ root_nodes' = Append(root_nodes, session)
         /\ parent_map' = [s \in DOMAIN parent_map \cup {session} |->
                              IF s = session THEN None ELSE parent_map[s]]
         /\ children' = children
       ELSE
         /\ root_nodes' = root_nodes
         /\ children' = [children EXCEPT ![parent] =
                              IF In(session, @) THEN @ ELSE Append(@, session)]
         /\ parent_map' = [s \in DOMAIN parent_map \cup {session} |->
                              IF s = session THEN parent ELSE parent_map[s]]

\* ------------------------------------------------------------------------
\* SessionTree.remove_node
\* ------------------------------------------------------------------------
\* the list that adopts: the kids are appended in order (the adoption loop),
\* then the removed session is taken out of it
Adopt_KidsFirst(list, kids, session) == ListRemove(kids \o list, session)

Adopt_KidsDropped(list, kids, session) == ListRemove(list, session)

Adopt(list, kids, session) == ListRemove(list \o kids, session)

\* an adoption that makes every adopted child a root
AdoptParents_AllRoots(pm, kids, session, parent) ==
    [s \in (DOMAIN pm \cup Range(kids)) \ {session} |->
        IF s \in Range(kids) THEN None ELSE pm[s]]

\* an adoption that also re-parents the grandchildren
AdoptParents_Deep(pm, kids, session, parent) ==
    [s \in (DOMAIN pm \cup Range(kids)) \ {session} |->
        IF s \in Range(kids) \/ pm[s] \in Range(kids) THEN parent ELSE pm[s]]

\* the parent map after the adoption loop and the final del
AdoptParents(pm, kids, session, parent) ==
    [s \in (DOMAIN pm \cup Range(kids)) \ {session} |->
        IF s \in Range(kids) THEN parent ELSE pm[s]]

\* a remove_node without the early return: the lookup of an untracked session
\* in the parent map raises KeyError
remove_node_NoGuard(session) ==
    IF session \notin DOMAIN parent_map
    THEN /\ exc' = "KeyError"
         /\ UNCHANGED treeVars
    ELSE LET parent == parent_map[session]
             kids == children[session]
         IN /\ exc' = "none"
            /\ root_nodes' = IF parent = None
                             THEN Adopt(root_nodes, kids, session)
                             ELSE root_nodes
            /\ children' = IF parent = None
                           THEN [children EXCEPT ![session] = <<>>]
                           ELSE [children EXCEPT ![parent] = Adopt(@, kids, session),
                                                 ![session] = <<>>]
            /\ parent_map' = AdoptParents(parent_map, kids, session, parent)

remove_node(session) ==
    /\ exc' = "none"
    /\ IF session \notin DOMAIN parent_map
       THEN UNCHANGED treeVars
       ELSE
         LET parent == parent_map[session]
             kids == children[session]
         IN /\ root_nodes' = IF parent = None
                             THEN Adopt(root_nodes, kids, session)
                             ELSE root_nodes
            /\ children' = IF parent = None
                           THEN [children EXCEPT ![session] = <<>>]
                           ELSE [children EXCEPT ![parent] = Adopt(@, kids, session),
                                                 ![session] = <<>>]
            /\ parent_map' = AdoptParents(parent_map, kids, session, parent)

\* ------------------------------------------------------------------------
\* Calls on the tree alone: any add_node / remove_node, in any order
\* ------------------------------------------------------------------------
Snapshot == [root_nodes |-> root_nodes, parent_map |-> parent_map,
             children |-> children, call |-> call,
             current_session |-> current_session,
             session_terminals |-> session_terminals]

WellFormedAdd(session, parent) ==
    /\ session \notin DOMAIN parent_map
    /\ parent = None \/ parent \in DOMAIN parent_map

\* every add_node so far inserted an untracked session under a tracked parent
\* or under no parent
wf == bad_adds = 0

NoCall == [op |-> "init", session |-> None, parent |-> None, fault |-> "none"]

\* SessionTree.__init__ and SessionManager.__init__
\* the marker, in pre, of a run that keeps no record of its calls
NoHistory == [op |-> "off", session |-> None, parent |-> None, fault |-> "none"]

\* the steps of close_session that can raise
CloseFaults == {"terminate", "callback"}

\* the marker of a run that records only the closes in which a step raised,
\* and not the state before them
FailuresOnly == [op |-> "failures", session |-> None, parent |-> None, fault |-> "none"]

\* what call holds after a call that was not recorded
Unrecorded == [op |-> "other", session |-> None, parent |-> None, fault |-> "none"]

\* the marker of a run that only counts the session-closed callbacks
CountCloses == [op |-> "count", session |-> None, parent |-> None, fault |-> "none"]

\* the run records each call and the state before it
Tracing == pre.call \notin {NoHistory, FailuresOnly, CountCloses}

NoneClosed == [s \in Sessions |-> 0]

\* closed_calls after a call that invoked the callbacks evs; the count stops
\* at two
Counted(counts, evs) ==
    [s \in Sessions |->
        LET n == counts[s] + Cardinality({i \in 1..Len(evs) :
                                             evs[i].cb = "closed" /\ evs[i].session = s})
        IN IF n > 2 THEN 2 ELSE n]

\* the rows of the sidebar's Gtk.TreeStore: rows[None] lists the sessions
\* of the top-level rows, rows[s] those of the child rows of s's row, in
\* order; iters is the set of keys of _session_to_iter; attached says
\* whether the window has a sidebar at all; undefined is set once a
\* Gtk.TreeIter whose row was removed has been handed to the TreeStore
RowKeys == Sessions \cup {None}

EmptyStore == [r \in RowKeys |-> <<>>]

NewSidebar(attached) ==
    [attached |-> attached, rows |-> EmptyStore, iters |-> {}, undefined |-> FALSE]

\* TerminalSession(pid=self._session_counter, pty_fd=self._session_counter, ...):
\* the identity the manager gives the session it numbers s
ManagerIdent == [s \in Sessions |-> [pid |-> s, pty_fd |-> s]]

InitWith(history, attached) ==
    /\ root_nodes = <<>>
    /\ parent_map = <<>>
    /\ children = [s \in Sessions |-> <<>>]
    /\ current_session = None
    /\ session_terminals = <<>>
    /\ session_counter = 0
    /\ idle_queue = <<>>
    /\ exited = {}
    /\ events = <<>>
    /\ ret = None
    /\ spawn_state = [s \in Sessions |-> "none"]
    /\ cwd = [s \in Sessions |-> <<>>]
    /\ title = [s \in Sessions |-> <<>>]
    /\ vte_title = [s \in Sessions |-> <<>>]
    /\ vte_pid = [s \in Sessions |-> None]
    /\ sidebar = NewSidebar(attached)
    /\ ident = ManagerIdent
    /\ table = <<>>
    /\ found = None
    /\ closed_calls = NoneClosed
    /\ seen = <<>>
    /\ exc = "none"
    /\ call = NoCall
    /\ pre = [root_nodes |-> <<>>, parent_map |-> <<>>,
              children |-> [s \in Sessions |-> <<>>], call |-> history,
              current_session |-> None, session_terminals |-> <<>>]
    /\ bad_adds = 0

Init == InitWith(NoCall, FALSE)

\* the same start for a run that keeps no record of its calls
InitNoHistory == InitWith(NoHistory, FALSE)

\* the same start for a run that records its failing closes only
InitFailuresOnly == InitWith(FailuresOnly, FALSE)

\* the same start for a run that counts the session-closed callbacks
InitCountCloses == InitWith(CountCloses, FALSE)

\* the start of the application window: a manager whose callbacks feed a
\* sidebar
InitSidebar == InitWith(NoHistory, TRUE)

\* add_node as its callers are required to call it
TreeAdd ==
    \E session \in Sessions, parent \in Sessions \cup {None} :
        /\ WellFormedAdd(session, parent)
        /\ add_node(session, parent)
        /\ call' = [op |-> "add_node", session |-> session, parent |-> parent, fault |-> "none"]
        /\ pre' = Snapshot
        /\ UNCHANGED <<bad_adds, mgrVars>>

\* remove_node of any session, tracked or not
TreeRemove ==
    \E session \in Sessions :
        /\ remove_node(session)
        /\ call' = [op |-> "remove_node", session |-> session, parent |-> None, fault |-> "none"]
        /\ pre' = Snapshot
        /\ UNCHANGED <<bad_adds, mgrVars>>

\* the tree under calls that keep add_node's contract
NextTree == TreeAdd \/ TreeRemove

SpecTree == Init /\ [][NextTree]_vars

\* any add_node: the session may be tracked already, the parent untracked.
\* What add_node does outside its contract is left undefined, so a run is
\* followed up to and including its first call outside the contract
TreeAddAny ==
    \E session \in Sessions, parent \in Sessions \cup {None} :
        /\ wf
        /\ add_node(session, parent)
        /\ call' = [op |-> "add_node", session |-> session, parent |-> parent, fault |-> "none"]
        /\ pre' = Snapshot
        /\ bad_adds' = bad_adds + (IF WellFormedAdd(session, parent) THEN 0 ELSE 1)
        /\ UNCHANGED mgrVars

TreeRemoveAny ==
    /\ wf
    /\ TreeRemove

\* the tree under any calls
NextTreeAny == TreeAddAny \/ TreeRemoveAny

SpecTreeAny == Init /\ [][NextTreeAny]_vars

\* ------------------------------------------------------------------------
\* TerminalSession titles.  A string is a sequence of one-character strings
\* ------------------------------------------------------------------------
Min(S) == CHOOSE x \in S : \A y \in S : x <= y

Max(S) == CHOOSE x \in S : \A y \in S : y <= x

\* [p for p in path.split("/") if p]: the non-empty pieces between slashes
RECURSIVE Components(_)
Components(path) ==
    IF path = <<>> THEN <<>>
    ELSE IF Head(path) = "/" THEN Components(Tail(path))
    ELSE LET slashes == {i \in 1..Len(path) : path[i] = "/"}
             n == IF slashes = {} THEN Len(path) + 1 ELSE Min(slashes)
         IN <<SubSeq(path, 1, n - 1)>> \o Components(SubSeq(path, n, Len(path)))

\* a join of the first two components
last_two_First(parts) == parts[1] \o <<"/">> \o parts[2]

\* "/".join(parts[-2:]) of two or more parts
last_two(parts) == parts[Len(parts) - 1] \o <<"/">> \o parts[Len(parts)]

\* _get_short_path_title: "" and "/" as they are, else the last one or two
\* components
get_short_path_title(path) ==
    IF path = <<>> \/ path = <<"/">> THEN path
    ELSE LET parts == Components(path)
             n == Len(parts)
         IN IF n = 0 THEN <<"/">>
            ELSE IF n = 1 THEN parts[1]
            ELSE last_two(parts)

\* str.strip() for the one whitespace character of the model's alphabet
Strip(str) ==
    LET ink == {i \in 1..Len(str) : str[i] # " "}
    IN IF ink = {} THEN <<>> ELSE SubSeq(str, Min(ink), Max(ink))

\* the positions where ": " occurs in str
ColonSpaces(str) == {i \in 1..(Len(str) - 1) : str[i] = ":" /\ str[i + 1] = " "}

\* parse_terminal_title's test  ": " in terminal_title
Separators(str) == ColonSpaces(str)

\* parse_terminal_title of a session whose cwd is session_cwd
parse_terminal_title(session_cwd, terminal_title) ==
    IF terminal_title = <<>>
    THEN get_short_path_title(session_cwd)
    ELSE IF Separators(terminal_title) # {}
    THEN LET i == Min(Separators(terminal_title))
             user_host == Strip(SubSeq(terminal_title, 1, i - 1))
             path == Strip(SubSeq(terminal_title, i + 2, Len(terminal_title)))
             short_path == get_short_path_title(path)
         IN short_path \o <<" ", "(">> \o user_host \o <<")">>
    ELSE terminal_title

\* os.path.expanduser("~")
Home == <<"/", "h", "/", "u">>

\* working directories a caller passes to new_session
Paths == {<<"/", "a", "/", "b", "/", "c">>, <<"/", "u">>}

\* an optional argument: <<>> when left out, <<x>> when given as x
NoArg == <<>>

Some(x) == <<x>>

\* ------------------------------------------------------------------------
\* SessionManager
\* ------------------------------------------------------------------------
\* a callback invocation: which callback, and the arguments it was given
Event(cb, session, kids, parent) ==
    [cb |-> cb, session |-> session, kids |-> kids, parent |-> parent]

\* callbacks that are invoked before the call has changed anything
AtCallback_BeforeCall(pm, terms, cur) ==
    [parent_map |-> parent_map, session_terminals |-> session_terminals,
     current_session |-> current_session]

\* what a callback finds: the parent map, the surface map and
\* current_session as the statements before its invocation have left them
AtCallback(pm, terms, cur) ==
    [parent_map |-> pm, session_terminals |-> terms, current_session |-> cur]

\* the record of what the callbacks found, kept in a run that records calls
Views(vs) == IF Tracing THEN vs ELSE <<>>

\* close_session invoking the session-closed callback first
close_callbacks_ClosedFirst(selected, closed) == <<closed, selected>>

\* close_session's callbacks when it selects a replacement: select_session
\* invokes the session-selected callback, and the session-closed callback
\* follows at the end of the body
close_callbacks(selected, closed) == <<selected, closed>>

\* SessionManager.get_all_sessions: the keys of the surface map, in dict order
mgr_get_all_sessions == session_terminals

get_terminal_widget(session) == In(session, session_terminals)

get_session_count == Len(session_terminals)

\* what building the surface and calling spawn_shell can come to: spawn_shell
\* returns True, spawn_shell returns False, VteTerminal() raises
SpawnOutcomes == {"ok", "failed", "raised"}

\* the working directory new_session uses: the one given, else the parent's,
\* else the home directory
session_cwd(parent, cwd_arg) ==
    IF cwd_arg # NoArg THEN cwd_arg[1]
    ELSE IF parent # None /\ cwd[parent] # <<>> THEN cwd[parent]
    ELSE Home

\* a new_session that registers the surface before it looks at spawn_shell's
\* result
Registered_Early(terms, session, spawn) == Append(terms, session)

\* the surface map after new_session: the surface is registered only once
\* spawn_shell has returned True
Registered(terms, session, spawn) ==
    IF spawn = "ok" THEN Append(terms, session) ELSE terms

\* new_session: the counter is advanced first; when the surface cannot be
\* built or spawn_shell returns False nothing else happens and None is
\* returned; otherwise the session numbered by the counter is built with its
\* cwd and title, gets its surface, enters the tree under parent, becomes
\* current, the session-created callback is invoked and the session returned
new_session(parent, cwd_arg, spawn) ==
    LET session == session_counter + 1
        dir == session_cwd(parent, cwd_arg)
    IN /\ session_counter' = session_counter + 1
       /\ session_terminals' = Registered(session_terminals, session, spawn)
       /\ UNCHANGED vte_title
       /\ IF spawn = "ok"
          THEN /\ cwd' = [cwd EXCEPT ![session] = dir]
               /\ vte_pid' = [vte_pid EXCEPT ![session] = None]
               /\ title' = [title EXCEPT ![session] = get_short_path_title(dir)]
               /\ spawn_state' = [spawn_state EXCEPT ![session] = "pending"]
               /\ add_node(session, parent)
               /\ current_session' = session
               /\ events' = <<Event("created", session, <<>>, None)>>
               /\ seen' = Views(<<AtCallback(parent_map', session_terminals',
                                             current_session')>>)
               /\ ret' = session
          ELSE /\ exc' = "none"
               /\ events' = <<>>
               /\ seen' = <<>>
               /\ ret' = None
               /\ UNCHANGED <<treeVars, current_session, spawn_state, cwd, title, vte_pid>>

new_child(spawn) ==
    IF current_session = None
    THEN new_session(None, NoArg, spawn)
    ELSE new_session(current_session, Some(cwd[current_session]), spawn)

\* a new_sibling that does not pass the current session's cwd on
new_sibling_NoCwd(spawn) ==
    IF current_session = None
    THEN new_session(None, NoArg, spawn)
    ELSE new_session(get_parent(current_session), NoArg, spawn)

new_sibling(spawn) ==
    IF current_session = None
    THEN new_session(None, NoArg, spawn)
    ELSE new_session(get_parent(current_session), Some(cwd[current_session]), spawn)

\* a select_session that accepts any session
Selectable_NoGuard(session, terms) == TRUE

\* select_session's guard: the session has a registered surface
Selectable(session, terms) == In(session, terms)

select_session(session) ==
    /\ exc' = "none"
    /\ ret' = None
    /\ UNCHANGED <<treeVars, session_terminals, session_counter, metaVars>>
    /\ IF Selectable(session, session_terminals)
       THEN /\ current_session' = session
            /\ events' = <<Event("selected", session, <<>>, None)>>
            /\ seen' = Views(<<AtCallback(parent_map', session_terminals',
                                          current_session')>>)
       ELSE /\ current_session' = current_session
            /\ events' = <<>>
            /\ seen' = <<>>

\* a snapshot of the children taken after remove_node has cleared them
children_to_adopt_Late(session) == <<>>

\* close_session's snapshot of session.children, taken before the tree changes
children_to_adopt(session) == children[session]

\* a replacement that prefers the first child to the parent
Replacement_ChildFirst(parent_session, kids, terms, roots) ==
    IF kids # <<>> /\ In(kids[1], terms) THEN kids[1]
    ELSE IF parent_session # None /\ In(parent_session, terms) THEN parent_session
    ELSE IF roots # <<>> THEN roots[1]
    ELSE None

\* the session close_session tries to select when it closed the current one:
\* the parent, else the first child, else the first root left, else None
Replacement(parent_session, kids, terms, roots) ==
    IF parent_session # None /\ In(parent_session, terms) THEN parent_session
    ELSE IF kids # <<>> /\ In(kids[1], terms) THEN kids[1]
    ELSE IF roots # <<>> THEN roots[1]
    ELSE None

\* close_session.  fault names the step that raises, if any: "terminate" is
\* terminal_widget.close(), "callback" is the session-selected callback; the
\* except clause swallows the exception and the rest of the body is skipped
close_session(session, fault) ==
    LET kids == children_to_adopt(session)
        parent_session == get_parent(session)
        terms == ListRemoveFirstOnly(session_terminals, session)
    IN IF fault = "terminate" /\ In(session, session_terminals)
       THEN /\ exc' = "none"
            /\ events' = <<>>
            /\ seen' = <<>>
            /\ ret' = None
            /\ UNCHANGED <<treeVars, current_session, session_terminals, metaVars, exited>>
       ELSE /\ session_terminals' = terms
            /\ spawn_state' = [spawn_state EXCEPT ![session] = "none"]
            /\ exited' = exited \ {session}
            /\ ret' = None
            /\ UNCHANGED <<cwd, title, vte_title, vte_pid>>
            /\ remove_node(session)
            /\ LET closed == Event("closed", session, kids, parent_session)
                   target == Replacement(parent_session, kids, terms, root_nodes')
                   selected == Event("selected", target, <<>>, None)
                   found_now == AtCallback(parent_map', terms, current_session')
               IN IF current_session # session
                  THEN /\ current_session' = current_session
                       /\ events' = <<closed>>
                       /\ seen' = Views(<<found_now>>)
                  ELSE IF target = None
                  THEN /\ current_session' = None
                       /\ events' = <<closed>>
                       /\ seen' = Views(<<found_now>>)
                  ELSE IF Selectable(target, terms)
                  THEN /\ current_session' = target
                       /\ events' = IF fault = "callback" THEN <<selected>>
                                    ELSE close_callbacks(selected, closed)
                       /\ seen' = Views(IF fault = "callback" THEN <<found_now>>
                                        ELSE <<found_now, found_now>>)
                  ELSE /\ current_session' = current_session
                       /\ events' = <<closed>>
                       /\ seen' = Views(<<found_now>>)

\* a step that stops at either end of the list
next_index_NoWrap(current_index, step, n) ==
    IF current_index + step \in 0..(n - 1) THEN current_index + step ELSE current_index

\* (current_index + 1) % len(all_sessions), (current_index - 1) % len(all_sessions)
next_index(current_index, step, n) == (current_index + step) % n

\* the session one step from current in all_sessions; list indices are from 0
\* in the code and from 1 here
step_target(all_sessions, current, step) ==
    LET current_index == IndexOf(all_sessions, current) - 1
    IN all_sessions[next_index(current_index, step, Len(all_sessions)) + 1]

\* select_next_session / select_previous_session: step is +1 or -1
select_step(step) ==
    LET all_sessions == mgr_get_all_sessions
        n == Len(all_sessions)
    IN IF n <= 1
       THEN /\ exc' = "none"
            /\ events' = <<>>
            /\ seen' = <<>>
            /\ ret' = None
            /\ UNCHANGED <<treeVars, current_session, session_terminals, session_counter,
                           metaVars>>
       ELSE IF current_session = None
       THEN select_session(IF step = 1 THEN all_sessions[1] ELSE all_sessions[n])
       ELSE IF ~In(current_session, all_sessions)
       THEN /\ exc' = "none"
            /\ events' = <<>>
            /\ seen' = <<>>
            /\ ret' = None
            /\ UNCHANGED <<treeVars, current_session, session_terminals, session_counter,
                           metaVars>>
       ELSE select_session(step_target(all_sessions, current_session, step))

select_next_session == select_step(1)

select_previous_session == select_step(-1)

\* ------------------------------------------------------------------------
\* SidebarController, fed by the window's session callbacks
\* ------------------------------------------------------------------------
\* r and the rows below r's row
RECURSIVE Subtree(_, _)
Subtree(rows, r) ==
    {r} \cup UNION {Subtree(rows, rows[r][i]) : i \in 1..Len(rows[r])}

\* the sessions that have a row in the store
Shown(sb) == Subtree(sb.rows, None) \ {None}

\* _session_to_iter holds an iter for s whose row is no longer in the store
Stale(sb, s) == s \in sb.iters /\ s \notin Shown(sb)

\* tree_store.append(parent_iter, [session, title]): a new last child row
store_append(rows, parent, session) ==
    [rows EXCEPT ![parent] = Append(@, session), ![session] = <<>>]

\* tree_store.remove(tree_iter): the row goes, and all rows below it
store_remove(rows, session) ==
    [r \in RowKeys |-> IF r \in Subtree(rows, session) THEN <<>>
                       ELSE ListRemove(rows[r], session)]

\* SidebarController.add_session
add_session(sb, session, parent) ==
    IF parent # None /\ parent \notin sb.iters THEN sb
    ELSE IF parent # None /\ Stale(sb, parent) THEN [sb EXCEPT !.undefined = TRUE]
    ELSE [sb EXCEPT !.rows = store_append(@, parent, session),
                    !.iters = @ \cup {session}]

\* _restore_children_data: one new row per (session, title), appended under
\* the new parent; the mapping of each is set to its new row
restore_children_data(rows, children_data, new_parent) ==
    [r \in RowKeys |-> IF r = new_parent THEN rows[r] \o children_data
                       ELSE IF In(r, children_data) THEN <<>>
                       ELSE rows[r]]

\* SidebarController.remove_session_with_adoption
remove_session_with_adoption(sb, session, adopted_children, new_parent) ==
    IF session \notin sb.iters THEN sb
    ELSE LET children_data == SelectSeq(adopted_children, LAMBDA c : c \in sb.iters)
             removed == store_remove(sb.rows, session)
             iters == sb.iters \ {session}
             target == IF new_parent # None /\ new_parent \in iters
                       THEN new_parent ELSE None
         IN IF \/ Stale(sb, session)
               \/ \E c \in Range(children_data) : Stale(sb, c)
               \/ target \notin Subtree(removed, None)
            THEN [sb EXCEPT !.undefined = TRUE]
            ELSE [sb EXCEPT !.rows = restore_children_data(removed, children_data, target),
                            !.iters = iters]

\* MainWindow._on_session_created / _on_session_closed /
\* _on_session_selected_by_manager: what the window does with the sidebar on
\* one callback of the manager; the tree is read as the manager has left it
\* when it invokes the callback; a selection hands the session's iter to the
\* tree view
on_session_event(sb, e) ==
    IF e.cb = "created"
    THEN add_session(sb, e.session,
                     IF e.session \in DOMAIN parent_map' THEN parent_map'[e.session]
                     ELSE None)
    ELSE IF e.cb = "closed"
    THEN remove_session_with_adoption(sb, e.session, e.kids, e.parent)
    ELSE IF e.cb = "selected" /\ Stale(sb, e.session)
    THEN [sb EXCEPT !.undefined = TRUE]
    ELSE sb

\* the callbacks of one call, in the order the manager invoked them
RECURSIVE Notify(_, _)
Notify(sb, evs) ==
    IF evs = <<>> THEN sb ELSE Notify(on_session_event(sb, Head(evs)), Tail(evs))

\* ------------------------------------------------------------------------
\* The manager's operations as the application and the event loop call them
\* ------------------------------------------------------------------------
\* the sessions a caller can hold: the numbers the counter has given out
Known == 1..session_counter

\* how a creation went, as recorded with the call
Went(spawn) == IF spawn = "ok" THEN "none" ELSE "spawn"

Called(op, session, parent, fault) ==
    /\ call' = IF Tracing \/ (pre.call = FailuresOnly /\ fault \in CloseFaults)
               THEN [op |-> op, session |-> session, parent |-> parent, fault |-> fault]
               ELSE IF pre.call = FailuresOnly THEN Unrecorded
               ELSE call
    /\ pre' = IF Tracing THEN [Snapshot EXCEPT !.call = NoCall] ELSE pre
    /\ sidebar' = IF sidebar.attached THEN Notify(sidebar, events') ELSE sidebar
    /\ closed_calls' = IF pre.call = CountCloses THEN Counted(closed_calls, events')
                       ELSE closed_calls
    /\ UNCHANGED <<bad_adds, dictVars>>

NewSession ==
    \E parent \in get_all_sessions \cup {None}, spawn \in SpawnOutcomes :
        /\ session_counter < MaxCounter
        /\ new_session(parent, NoArg, spawn)
        /\ Called("new_session", None, parent, Went(spawn))
        /\ UNCHANGED <<idle_queue, exited>>

NewChild ==
    \E spawn \in SpawnOutcomes :
        /\ session_counter < MaxCounter
        /\ new_child(spawn)
        /\ Called("new_child", None, None, Went(spawn))
        /\ UNCHANGED <<idle_queue, exited>>

NewSibling ==
    \E spawn \in SpawnOutcomes :
        /\ session_counter < MaxCounter
        /\ new_sibling(spawn)
        /\ Called("new_sibling", None, None, Went(spawn))
        /\ UNCHANGED <<idle_queue, exited>>

CloseSession ==
    \E session \in Known :
        /\ close_session(session, "none")
        /\ Called("close_session", session, None, "none")
        /\ UNCHANGED <<session_counter, idle_queue>>

CloseCurrentSession ==
    /\ IF current_session # None
       THEN close_session(current_session, "none")
       ELSE /\ exc' = "none"
            /\ events' = <<>>
            /\ seen' = <<>>
            /\ ret' = None
            /\ UNCHANGED <<treeVars, current_session, session_terminals, metaVars, exited>>
    /\ Called("close_current_session", current_session, None, "none")
    /\ UNCHANGED <<session_counter, idle_queue>>

SelectSession ==
    \E session \in Known :
        /\ select_session(session)
        /\ Called("select_session", session, None, "none")
        /\ UNCHANGED <<idle_queue, exited>>

SelectNextSession ==
    /\ select_next_session
    /\ Called("select_next_session", None, None, "none")
    /\ UNCHANGED <<session_counter, idle_queue, exited>>

SelectPreviousSession ==
    /\ select_previous_session
    /\ Called("select_previous_session", None, None, "none")
    /\ UNCHANGED <<session_counter, idle_queue, exited>>

\* an exit handler that queues the close twice
Enqueued_Twice(queue, session) == Append(Append(queue, session), session)

\* an exit handler that only logs
Enqueued_Forgotten(queue, session) == queue

\* GLib.idle_add(lambda: self.close_session(session))
Enqueued(queue, session) == Append(queue, session)

\* The child of a live surface exits, once, and both handlers of the
\* child-exited signal run: VteTerminal._on_child_exited clears the surface's
\* pid, _on_terminal_exited queues close_session(session) for a later turn of
\* the event loop
TerminalExited ==
    \E session \in Range(session_terminals) \ exited :
        /\ idle_queue' = Enqueued(idle_queue, session)
        /\ exited' = exited \cup {session}
        /\ exc' = "none"
        /\ events' = <<>>
        /\ seen' = <<>>
        /\ ret' = None
        /\ vte_pid' = [vte_pid EXCEPT ![session] = None]
        /\ Called("_on_terminal_exited", session, None, "none")
        /\ UNCHANGED <<treeVars, current_session, session_terminals, session_counter,
                       spawn_state, cwd, title, vte_title>>

\* the event loop runs the oldest queued close
IdleClose ==
    /\ idle_queue # <<>>
    /\ close_session(Head(idle_queue), "none")
    /\ idle_queue' = Tail(idle_queue)
    /\ Called("idle_close", Head(idle_queue), None, "none")
    /\ UNCHANGED session_counter

Next ==
    \/ NewSession \/ NewChild \/ NewSibling
    \/ CloseSession \/ CloseCurrentSession
    \/ SelectSession \/ SelectNextSession \/ SelectPreviousSession
    \/ TerminalExited \/ IdleClose

Spec == Init /\ [][Next]_vars

\* the manager in a run that counts the session-closed callbacks
SpecOnce == InitCountCloses /\ [][Next]_vars

LiveNewSession == session_counter < MaxLive /\ NewSession

LiveNewChild == session_counter < MaxLive /\ NewChild

LiveNewSibling == session_counter < MaxLive /\ NewSibling

NextLive ==
    \/ LiveNewSession \/ LiveNewChild \/ LiveNewSibling
    \/ CloseSession \/ CloseCurrentSession
    \/ SelectSession \/ SelectNextSession \/ SelectPreviousSession
    \/ TerminalExited \/ IdleClose

\* the manager under a running event loop: GLib runs an idle task once the
\* loop has nothing of higher priority, so a queued close is not put off
\* for ever
SpecLive == Init /\ [][NextLive]_vars /\ WF_vars(IdleClose)

\* the same operations with no assumption on the event loop
SpecExit == Init /\ [][NextLive]_vars

\* new_session with a working directory given by the caller
NewSessionIn ==
    \E parent \in get_all_sessions \cup {None}, dir \in Paths, spawn \in SpawnOutcomes :
        /\ session_counter < MaxCounter
        /\ new_session(parent, Some(dir), spawn)
        /\ Called("new_session", None, parent, Went(spawn))
        /\ UNCHANGED <<idle_queue, exited>>

NextCwd ==
    \/ NewSession \/ NewSessionIn \/ NewChild \/ NewSibling
    \/ CloseSession \/ SelectSession

\* the manager with sessions in different working directories
SpecCwd == Init /\ [][NextCwd]_vars

\* a client of the manager assigns None to its current_session attribute
ResetCurrent ==
    /\ current_session # None
    /\ current_session' = None
    /\ exc' = "none"
    /\ events' = <<>>
    /\ seen' = <<>>
    /\ ret' = None
    /\ Called("reset_current", None, None, "none")
    /\ UNCHANGED <<treeVars, session_terminals, session_counter, idle_queue, exited,
                   metaVars>>

NextSelect ==
    \/ NewSession \/ CloseSession \/ SelectSession
    \/ SelectNextSession \/ SelectPreviousSession
    \/ ResetCurrent

\* the manager under a client that can also clear current_session
SpecSelect == Init /\ [][NextSelect]_vars

\* VteTerminal.get_window_title: the Vte.Terminal's title, "Terminal" when
\* it has none
DefaultTitle == <<"T", "e", "r", "m", "i", "n", "a", "l">>

get_window_title(session) ==
    IF vte_title[session] # <<>> THEN vte_title[session] ELSE DefaultTitle

\* VteTerminal.get_current_directory: None while the surface's pid is unset,
\* else the directory /proc/<pid>/cwd links to, the one the shell was
\* started in
get_current_directory(session) ==
    IF vte_pid[session] = None THEN NoArg ELSE Some(cwd[session])

\* VteTerminal.close: os.kill(self.pid, 15) is reached when the pid is set
close_signals(session) == vte_pid[session] # None

\* a handler that takes every window title for a change of title
title_changed_Always(parsed_title, session_title) == TRUE

\* title_changed = parsed_title != session.title
title_changed(parsed_title, session_title) == parsed_title # session_title

\* _on_terminal_title_changed: without a surface nothing; else the title is
\* set from the parsed window title if there is one, the cwd from the
\* surface's current directory if it reports another one (and then the title
\* from the cwd if there was no window title), and the session-changed
\* callback is invoked if either changed
on_terminal_title_changed(session) ==
    LET raw_title == get_window_title(session)
        parsed_title == parse_terminal_title(cwd[session], raw_title)
        title_set == raw_title # <<>> /\ title_changed(parsed_title, title[session])
        title1 == IF title_set THEN parsed_title ELSE title[session]
        current_dir == get_current_directory(session)
        cwd_changed == /\ current_dir # NoArg
                       /\ current_dir[1] # <<>>
                       /\ current_dir[1] # cwd[session]
        from_cwd == /\ cwd_changed
                    /\ raw_title = <<>>
                    /\ get_short_path_title(current_dir[1]) # title1
        title2 == IF from_cwd THEN get_short_path_title(current_dir[1]) ELSE title1
    IN /\ exc' = "none"
       /\ ret' = None
       /\ UNCHANGED <<treeVars, current_session, session_terminals, session_counter,
                      spawn_state, vte_title, vte_pid>>
       /\ IF ~In(session, session_terminals)
          THEN /\ events' = <<>>
               /\ seen' = <<>>
               /\ UNCHANGED <<cwd, title>>
          ELSE /\ title' = [title EXCEPT ![session] = title2]
               /\ cwd' = IF cwd_changed THEN [cwd EXCEPT ![session] = current_dir[1]]
                          ELSE cwd
               /\ events' = IF title_set \/ from_cwd \/ cwd_changed
                             THEN <<Event("changed", session, <<>>, None)>>
                             ELSE <<>>
               /\ seen' = IF title_set \/ from_cwd \/ cwd_changed
                           THEN Views(<<AtCallback(parent_map', session_terminals',
                                                   current_session')>>)
                           ELSE <<>>

\* the window-title-changed signal of a session's Vte.Terminal is delivered
TerminalTitleChanged ==
    \E session \in Known :
        /\ on_terminal_title_changed(session)
        /\ Called("_on_terminal_title_changed", session, None, "none")
        /\ UNCHANGED <<idle_queue, exited>>

\* the window titles a terminal can report
TitleChars == {"u", "@", ":", " ", "/"}

RawTitles == UNION {[1..n -> TitleChars] : n \in 0..MaxTitleLen}

\* one session, created by new_session(cwd=dir), whose terminal has been
\* given the window title raw (none when raw is empty)
InitTitle ==
    \E dir \in Paths, raw \in RawTitles :
        /\ root_nodes = <<1>>
        /\ parent_map = [s \in {1} |-> None]
        /\ children = [s \in Sessions |-> <<>>]
        /\ current_session = 1
        /\ session_terminals = <<1>>
        /\ session_counter = 1
        /\ idle_queue = <<>>
        /\ exited = {}
        /\ events = <<>>
        /\ ret = None
        /\ spawn_state = [s \in Sessions |-> IF s = 1 THEN "pending" ELSE "none"]
        /\ cwd = [s \in Sessions |-> IF s = 1 THEN dir ELSE <<>>]
        /\ title = [s \in Sessions |-> IF s = 1 THEN get_short_path_title(dir) ELSE <<>>]
        /\ vte_title = [s \in Sessions |-> IF s = 1 THEN raw ELSE <<>>]
        /\ vte_pid = [s \in Sessions |-> None]
        /\ sidebar = NewSidebar(FALSE)
        /\ ident = ManagerIdent
        /\ table = <<>>
        /\ found = None
        /\ closed_calls = NoneClosed
        /\ seen = <<>>
        /\ exc = "none"
        /\ call = NoCall
        /\ pre = [root_nodes |-> <<>>, parent_map |-> <<>>,
                  children |-> [s \in Sessions |-> <<>>], call |-> NoCall,
                  current_session |-> None, session_terminals |-> <<>>]
        /\ bad_adds = 0

NextTitle == TerminalTitleChanged \/ CloseSession

\* the title handler on every window title a terminal can report
SpecTitle == InitTitle /\ [][NextTitle]_vars

\* A Gtk.TreeIter whose row was removed is not valid any more and what the
\* TreeStore does with it is undefined: a run of the window is followed up
\* to and including the first call that hands one to the store
SidebarDefined == ~sidebar.undefined

WindowNewSession == SidebarDefined /\ NewSession

WindowNewChild == SidebarDefined /\ NewChild

WindowNewSibling == SidebarDefined /\ NewSibling

WindowCloseSession == SidebarDefined /\ CloseSession

WindowSelectSession == SidebarDefined /\ SelectSession

NextSidebar ==
    \/ WindowNewSession \/ WindowNewChild \/ WindowNewSibling
    \/ WindowCloseSession \/ WindowSelectSession

\* the manager with the window's sidebar attached to its callbacks
SpecSidebar == InitSidebar /\ [][NextSidebar]_vars

\* a completion that takes the session's number for the child's pid
completed_pid_Child(success) == IF success THEN 1 ELSE None

\* self.pid after _on_spawn_complete: None is assigned whether spawn_finish
\* reported success, reported failure or raised
completed_pid(success) == None

\* _on_spawn_complete: spawn_async's completion reports to the surface
\* whether the shell was started; the surface logs the result and tells
\* nobody
SpawnComplete ==
    \E session \in Range(session_terminals), success \in BOOLEAN :
        /\ spawn_state[session] = "pending"
        /\ spawn_state' = [spawn_state EXCEPT ![session] = IF success THEN "ok" ELSE "failed"]
        /\ vte_pid' = [vte_pid EXCEPT ![session] = completed_pid(success)]
        /\ exc' = "none"
        /\ events' = <<>>
        /\ seen' = <<>>
        /\ ret' = None
        /\ Called("_on_spawn_complete", session, None, IF success THEN "none" ELSE "failed")
        /\ UNCHANGED <<treeVars, current_session, session_terminals, session_counter,
                       idle_queue, exited, cwd, title, vte_title>>

NextSpawn == Next \/ SpawnComplete

NextPid == NextLive \/ SpawnComplete

\* the surfaces of a few sessions through spawn completion, exit and close
SpecPid == InitNoHistory /\ [][NextPid]_vars

\* the manager together with the completions of its surfaces' spawns
SpecSpawn == InitNoHistory /\ [][NextSpawn]_vars

\* a close in which a step raises: the surface's close(), or the
\* session-selected callback that close_session's selection invokes
CloseSessionFaulty ==
    \E session \in Known, fault \in CloseFaults :
        /\ fault = "terminate" => In(session, session_terminals)
        /\ fault = "callback" => current_session = session
        /\ close_session(session, fault)
        /\ Called("close_session", session, None, fault)
        /\ UNCHANGED <<session_counter, idle_queue>>

IdleCloseFaulty ==
    \E fault \in CloseFaults :
        /\ idle_queue # <<>>
        /\ fault = "terminate" => In(Head(idle_queue), session_terminals)
        /\ fault = "callback" => current_session = Head(idle_queue)
        /\ close_session(Head(idle_queue), fault)
        /\ idle_queue' = Tail(idle_queue)
        /\ Called("idle_close", Head(idle_queue), None, fault)
        /\ UNCHANGED session_counter

NextFaulty == Next \/ CloseSessionFaulty \/ IdleCloseFaulty

SpecFaulty == InitFailuresOnly /\ [][NextFaulty]_vars

\* ------------------------------------------------------------------------
\* TerminalSession as a value and as a dict key
\* ------------------------------------------------------------------------
\* hash() of a small int: the int itself, except that -1 hashes to -2
int_hash(x) == IF x = -1 THEN -2 ELSE x

\* a __hash__ that takes the title in
session_hash_WithTitle(s) == <<int_hash(ident[s].pid), int_hash(ident[s].pty_fd), title[s]>>

\* TerminalSession.__hash__: hash((self.pid, self.pty_fd)), a function of
\* the hashes of the two fields
session_hash(s) == <<int_hash(ident[s].pid), int_hash(ident[s].pty_fd)>>

\* TerminalSession.__eq__ between two sessions
session_eq(s, other) ==
    /\ ident[s].pid = ident[other].pid
    /\ ident[s].pty_fd = ident[other].pty_fd

\* the entries of a dict a lookup of key s matches: the hash stored at
\* insertion is the key's hash now, and the stored key is the same object or
\* compares equal
dict_matches(d, s) ==
    {i \in 1..Len(d) : /\ d[i].hash = session_hash(s)
                         /\ (d[i].key = s \/ session_eq(d[i].key, s))}

\* s in d
dict_contains(d, s) == dict_matches(d, s) # {}

\* d[s] = ...: a key that is found keeps its entry, a new one is appended
\* with its hash as it is now
dict_setitem(d, s) ==
    IF dict_contains(d, s) THEN d ELSE Append(d, [hash |-> session_hash(s), key |-> s])

\* the session objects a client holds
Objects == {1, 2}

Pids == {-2, -1, 1}

Fds == {1, 2}

\* titles a client gives a session
Titles == {<<"u">>, <<"b", "/", "c">>}

\* what a step on session values leaves alone
valueFrame == <<treeVars, current_session, session_terminals, session_counter,
                idle_queue, exited, events, ret, spawn_state, vte_title, vte_pid,
                sidebar,
                closed_calls, seen, exc, pre, bad_adds>>

\* TerminalSession(pid, pty_fd, cwd[, title]): __post_init__ derives a title
\* that was not given from the cwd
post_init(dir, title_arg) ==
    IF title_arg = NoArg THEN get_short_path_title(dir) ELSE title_arg[1]

\* two session values, built from any pids, pty_fds, cwds and titles
InitValues ==
    \E p1, p2 \in Pids, f1, f2 \in Fds, d1, d2 \in Paths,
       t1, t2 \in {NoArg} \cup {Some(t) : t \in Titles} :
        /\ root_nodes = <<>>
        /\ parent_map = <<>>
        /\ children = [s \in Sessions |-> <<>>]
        /\ current_session = None
        /\ session_terminals = <<>>
        /\ session_counter = 0
        /\ idle_queue = <<>>
        /\ exited = {}
        /\ events = <<>>
        /\ ret = None
        /\ spawn_state = [s \in Sessions |-> "none"]
        /\ vte_title = [s \in Sessions |-> <<>>]
        /\ vte_pid = [s \in Sessions |-> None]
        /\ sidebar = NewSidebar(FALSE)
        /\ exc = "none"
        /\ call = NoCall
        /\ pre = [root_nodes |-> <<>>, parent_map |-> <<>>,
                  children |-> [s \in Sessions |-> <<>>], call |-> NoCall,
                  current_session |-> None, session_terminals |-> <<>>]
        /\ bad_adds = 0
        /\ ident = [s \in Sessions |->
                       IF s = 1 THEN [pid |-> p1, pty_fd |-> f1]
                       ELSE IF s = 2 THEN [pid |-> p2, pty_fd |-> f2]
                       ELSE ManagerIdent[s]]
        /\ cwd = [s \in Sessions |-> IF s = 1 THEN d1 ELSE IF s = 2 THEN d2 ELSE <<>>]
        /\ title = [s \in Sessions |->
                       IF s = 1 THEN post_init(d1, t1)
                       ELSE IF s = 2 THEN post_init(d2, t2) ELSE <<>>]
        /\ table = <<>>
        /\ found = None
        /\ closed_calls = NoneClosed
        /\ seen = <<>>

\* the session is made a key of the dict (self._parent_map[session] = parent,
\* self._session_terminals[session] = terminal_widget)
DictInsert ==
    \E s \in Objects :
        /\ table' = dict_setitem(table, s)
        /\ found' = None
        /\ call' = [op |-> "dict_setitem", session |-> s, parent |-> None, fault |-> "none"]
        /\ UNCHANGED <<valueFrame, ident, cwd, title>>

\* session.title = ... with another title
SetTitle ==
    \E s \in Objects, t \in Titles :
        /\ t # title[s]
        /\ title' = [title EXCEPT ![s] = t]
        /\ found' = None
        /\ call' = [op |-> "set_title", session |-> s, parent |-> None, fault |-> "none"]
        /\ UNCHANGED <<valueFrame, ident, cwd, table>>

\* session.cwd = ... with another directory
SetCwd ==
    \E s \in Objects, dir \in Paths :
        /\ dir # cwd[s]
        /\ cwd' = [cwd EXCEPT ![s] = dir]
        /\ found' = None
        /\ call' = [op |-> "set_cwd", session |-> s, parent |-> None, fault |-> "none"]
        /\ UNCHANGED <<valueFrame, ident, title, table>>

\* session in the dict: found is the key object of the entry that matched
DictLookup ==
    \E s \in Objects :
        /\ found' = IF dict_contains(table, s)
                     THEN table[Min(dict_matches(table, s))].key ELSE None
        /\ call' = [op |-> "dict_contains", session |-> s, parent |-> None, fault |-> "none"]
        /\ UNCHANGED <<valueFrame, ident, cwd, title, table>>

\* the working directories a session is built with
PathChars == {"/", "a", "b"}

PathStrings == UNION {[1..n -> PathChars] : n \in 0..MaxPathLen}

\* the same directory written with a slash at the end, or without the one
\* at the start
Rewritten(dir, how) ==
    IF how = "trailing" THEN dir \o <<"/">>
    ELSE IF dir # <<>> /\ Head(dir) = "/" THEN Tail(dir)
    ELSE dir

\* two sessions about to be built, the second in the first's directory
\* written the other way
InitShort ==
    \E dir \in PathStrings, how \in {"trailing", "unrooted"} :
        /\ root_nodes = <<>>
        /\ parent_map = <<>>
        /\ children = [s \in Sessions |-> <<>>]
        /\ current_session = None
        /\ session_terminals = <<>>
        /\ session_counter = 0
        /\ idle_queue = <<>>
        /\ exited = {}
        /\ events = <<>>
        /\ ret = None
        /\ spawn_state = [s \in Sessions |-> "none"]
        /\ cwd = [s \in Sessions |-> IF s = 1 THEN dir
                                      ELSE IF s = 2 THEN Rewritten(dir, how) ELSE <<>>]
        /\ title = [s \in Sessions |-> <<>>]
        /\ vte_title = [s \in Sessions |-> <<>>]
        /\ vte_pid = [s \in Sessions |-> None]
        /\ sidebar = NewSidebar(FALSE)
        /\ ident = ManagerIdent
        /\ table = <<>>
        /\ found = None
        /\ closed_calls = NoneClosed
        /\ seen = <<>>
        /\ exc = "none"
        /\ call = NoCall
        /\ pre = [root_nodes |-> <<>>, parent_map |-> <<>>,
                  children |-> [s \in Sessions |-> <<>>], call |-> NoCall,
                  current_session |-> None, session_terminals |-> <<>>]
        /\ bad_adds = 0

\* TerminalSession(pid, pty_fd, cwd) with no title, for the next of the two
CreateSession ==
    LET session == session_counter + 1
    IN /\ session_counter < 2
       /\ session_counter' = session
       /\ title' = [title EXCEPT ![session] = post_init(cwd[session], NoArg)]
       /\ ret' = session
       /\ call' = [op |-> "TerminalSession", session |-> session, parent |-> None,
                   fault |-> "none"]
       /\ UNCHANGED <<treeVars, current_session, session_terminals, idle_queue, exited,
                      events, spawn_state, cwd, vte_title, vte_pid, sidebar, dictVars,
                      closed_calls, seen, exc, pre, bad_adds>>

NextShort == CreateSession

\* sessions built without a title in every directory of the alphabet
SpecShort == InitShort /\ [][NextShort]_vars

NextValues == DictInsert \/ SetTitle \/ SetCwd \/ DictLookup

\* session values compared, hashed, changed and used as keys of a dict
SpecValues == InitValues /\ [][NextValues]_vars

\* ------------------------------------------------------------------------
\* Properties of the tree
\* ------------------------------------------------------------------------
\* the sessions reachable from a set of sessions by following children
RECURSIVE Closure(_)
Closure(S) ==
    LET T == S \cup UNION {Range(children[s]) : s \in S}
    IN IF T = S THEN S ELSE Closure(T)

ReachableFromRoots == Closure(Range(root_nodes))

\* the number of sessions that list s as a child, plus one if s is a root
Holders(s) ==
    Cardinality({p \in Sessions : In(s, children[p])})
        + (IF In(s, root_nodes) THEN 1 ELSE 0)

\* the last call was remove_node on a session that was tracked
Removed == call.op = "remove_node" /\ call.session \in DOMAIN pre.parent_map
RemovedParent == pre.parent_map[call.session]
RemovedKids == pre.children[call.session]

\* the list the removed session was in, before and after the call
AdoptingListBefore ==
    IF RemovedParent = None THEN pre.root_nodes ELSE pre.children[RemovedParent]
AdoptingListAfter ==
    IF RemovedParent = None THEN root_nodes ELSE children[RemovedParent]

\* the list without every entry equal to x
Without(seq, x) == SelectSeq(seq, LAMBDA y : y # x)

\* C1 as stated: after any calls, the sessions reachable from the roots are
\* the tracked sessions, and no session has two parents or is root and child
C1_ReachableIsTracked_AnyCalls ==
    /\ ReachableFromRoots = get_all_sessions
    /\ \A s \in Sessions : Holders(s) <= 1

\* C1 amended: the same, after calls in which every add_node inserted an
\* untracked session under a tracked parent or under no parent
C1_ReachableIsTracked ==
    wf => /\ ReachableFromRoots = get_all_sessions
          /\ \A s \in Sessions : Holders(s) <= 1

C1_Witness ==
    /\ wf /\ Removed
    /\ RemovedParent # None
    /\ RemovedKids # <<>>

\* C2: remove_node(M) of a tracked M with parent P makes P the parent of every
\* immediate child of M: roots with no parent if M was a root, children of P
\* otherwise
C2_ChildrenGetFormerParent ==
    Removed =>
        \A c \in Range(RemovedKids) :
            /\ c \in get_all_sessions
            /\ get_parent(c) = RemovedParent
            /\ IF RemovedParent = None
               THEN In(c, get_roots)
               ELSE In(c, get_children(RemovedParent))

C2_Witness ==
    /\ Removed
    /\ RemovedParent # None
    /\ Len(RemovedKids) >= 2

\* C3: after remove_node(M) the adopting list is its previous contents with M
\* deleted, in the same order, followed by M's children in their order
C3_AdoptedAppendedInOrder ==
    Removed => AdoptingListAfter = Without(AdoptingListBefore, call.session) \o RemovedKids

C3_Witness ==
    /\ Removed
    /\ Len(RemovedKids) >= 2
    /\ Len(AdoptingListBefore) >= 2
    /\ AdoptingListBefore[1] = call.session

\* C4: remove_node(x) changes the parent only of x and of x's immediate
\* children, and the child list only of x and of x's former parent; removing a
\* childless x leaves every other session's parent and the remaining entries
\* of every list as they were
C4_RemoveFrame ==
    Removed =>
        /\ \A s \in Sessions \ ({call.session} \cup Range(RemovedKids)) :
              /\ s \in DOMAIN parent_map <=> s \in DOMAIN pre.parent_map
              /\ s \in DOMAIN parent_map => parent_map[s] = pre.parent_map[s]
        /\ \A s \in Sessions \ {call.session, RemovedParent} :
              children[s] = pre.children[s]
        /\ RemovedParent # None => root_nodes = pre.root_nodes
        /\ RemovedKids = <<>> =>
              /\ \A s \in Sessions \ {call.session} :
                    /\ s \in DOMAIN parent_map <=> s \in DOMAIN pre.parent_map
                    /\ s \in DOMAIN parent_map => parent_map[s] = pre.parent_map[s]
                    /\ children[s] = Without(pre.children[s], call.session)
              /\ root_nodes = Without(pre.root_nodes, call.session)

C4_Witness ==
    /\ Removed
    /\ \E c \in Range(RemovedKids) :
          /\ children[c] # <<>>
          /\ \A g \in Range(children[c]) : get_parent(g) = c

\* C5: after remove_node(x) of a tracked x, x has no children and no query
\* returns x, until x is added again
C5_RemovedIsGone ==
    /\ Removed => call.session \notin get_all_sessions
    /\ \A x \in Sessions \ get_all_sessions :
          /\ children[x] = <<>>
          /\ ~In(x, get_roots)
          /\ \A y \in get_all_sessions : ~In(x, get_children(y))
          /\ find_session_by_pid(x) # x

C5_Witness ==
    /\ Removed
    /\ RemovedKids # <<>>
    /\ pre.call.op = "remove_node"

\* C6: remove_node(x) of an untracked x changes nothing and raises nothing
C6_RemoveUntrackedIsNoOp ==
    (call.op = "remove_node" /\ call.session \notin DOMAIN pre.parent_map) =>
        /\ exc = "none"
        /\ root_nodes = pre.root_nodes
        /\ parent_map = pre.parent_map
        /\ children = pre.children

\* the second of two remove_node(x) in a row, x tracked before the first
C6_Witness ==
    /\ call.op = "remove_node"
    /\ call.session \notin DOMAIN pre.parent_map
    /\ pre.call = call
    /\ get_all_sessions # {}

\* C7: when every add_node inserts an untracked session under a tracked parent
\* or under no parent, s is in p.children exactly when p is the parent of s, s
\* is a root exactly when it is tracked with no parent, and no list holds a
\* session twice
C7_ListsMatchParentMap ==
    /\ \A s, p \in Sessions :
          In(s, children[p]) <=> (s \in DOMAIN parent_map /\ parent_map[s] = p)
    /\ \A s \in Sessions :
          In(s, root_nodes) <=> (s \in DOMAIN parent_map /\ parent_map[s] = None)
    /\ NoDup(root_nodes)
    /\ \A p \in Sessions : NoDup(children[p])

C7_Witness ==
    /\ call.op = "add_node"
    /\ call.parent # None
    /\ pre.call.op = "remove_node"
    /\ pre.call.session = call.session
    /\ Len(root_nodes) >= 2

\* ------------------------------------------------------------------------
\* Properties of the manager
\* ------------------------------------------------------------------------
CloseOps == {"close_session", "close_current_session", "idle_close"}

\* the last call ran close_session(call.session)
Closed == call.op \in CloseOps /\ call.session # None

\* parent, children and surfaces of the closed session as the call found them
ClosedParent ==
    IF call.session \in DOMAIN pre.parent_map THEN pre.parent_map[call.session] ELSE None
ClosedKids == pre.children[call.session]
SurfacesLeft == Range(pre.session_terminals) \ {call.session}

ClosedEvents == {i \in 1..Len(events) : events[i].cb = "closed"}

\* C8: closing the current session S makes current the former parent of S if
\* it has a surface, else S's first child (as listed before the close) if it
\* has a surface, else the first root left in the tree, else None
C8_ReplacementPriority ==
    (Closed /\ pre.current_session = call.session) =>
        current_session =
            IF ClosedParent # None /\ ClosedParent \in SurfacesLeft THEN ClosedParent
            ELSE IF ClosedKids # <<>> /\ ClosedKids[1] \in SurfacesLeft THEN ClosedKids[1]
            ELSE IF get_roots # <<>> THEN get_roots[1]
            ELSE None

C8_Witness ==
    /\ Closed /\ pre.current_session = call.session
    /\ ClosedParent # None
    /\ ClosedKids # <<>>
    /\ current_session = ClosedParent

\* C9: after any manager operations, failing closes included, current_session
\* is None or a session tracked in the tree
C9_CurrentIsTracked ==
    current_session = None \/ current_session \in get_all_sessions

C9_Witness ==
    /\ Closed /\ call.fault = "callback"
    /\ current_session # None
    /\ call.session \notin get_all_sessions

\* C10: close_session(S) of a tracked S invokes the session-closed callback
\* exactly once in that call, current or not, with S, S's children and S's
\* parent as they were before the tree changed
C10_ClosedCallbackOnce ==
    (Closed /\ call.session \in DOMAIN pre.parent_map) =>
        /\ Cardinality(ClosedEvents) = 1
        /\ \A i \in ClosedEvents :
              events[i] = Event("closed", call.session, ClosedKids, ClosedParent)

C10_Witness ==
    /\ Closed /\ call.session \in DOMAIN pre.parent_map
    /\ pre.current_session # call.session
    /\ ClosedParent # None
    /\ ClosedKids # <<>>
    /\ Cardinality(ClosedEvents) = 1

NewOps == {"new_session", "new_child", "new_sibling"}

\* the last call was a new_session whose surface could not be built or whose
\* spawn_shell returned False
SpawnFailed == call.op \in NewOps /\ call.fault = "spawn"

\* the tree, the surface map and current_session are as the last call found them
ManagerUntouched ==
    /\ root_nodes = pre.root_nodes
    /\ parent_map = pre.parent_map
    /\ children = pre.children
    /\ session_terminals = pre.session_terminals
    /\ current_session = pre.current_session

\* C11: a new_session (new_child, new_sibling) whose spawn_shell reports
\* failure or whose surface constructor raises returns None, raises nothing,
\* invokes no callback and leaves the tree, the surface map and
\* current_session as they were
C11_FailedSpawnLeavesNothing ==
    SpawnFailed =>
        /\ ret = None
        /\ exc = "none"
        /\ events = <<>>
        /\ ManagerUntouched

C11_Witness ==
    /\ SpawnFailed
    /\ call.op = "new_child"
    /\ pre.current_session # None
    /\ Len(pre.session_terminals) >= 2
    /\ ret = None
    /\ ManagerUntouched

\* the last call was select_session(call.session)
Selected == call.op = "select_session"

\* C14: select_session(S) makes S current and invokes the session-selected
\* callback when S has a registered surface; for any other S it leaves
\* current_session as it was, invokes no callback and raises nothing
C14_SelectOnlyRegistered ==
    Selected =>
        /\ exc = "none"
        /\ IF call.session \in Range(pre.session_terminals)
           THEN /\ current_session = call.session
                /\ events = <<Event("selected", call.session, <<>>, None)>>
           ELSE /\ current_session = pre.current_session
                /\ events = <<>>

C14_Witness ==
    /\ Selected
    /\ call.session \notin Range(pre.session_terminals)
    /\ pre.current_session # None
    /\ current_session = pre.current_session
    /\ events = <<>>

\* C16: a close_session(S) in which terminating the surface raises does
\* not raise to its caller and still selects a replacement when S was
\* current (so S is not current afterwards) and invokes the session-closed
\* callback
C16_FailedCloseStillFinishes ==
    (Closed /\ call.fault = "terminate") =>
        /\ exc = "none"
        /\ current_session # call.session
        /\ ClosedEvents # {}

\* C17: close_session(S) of a session that is neither tracked nor in the
\* surface map raises nothing and leaves the tree, the surface map and
\* current_session as they were
C17_CloseUnknownIsNoOp ==
    (Closed /\ call.session \notin DOMAIN pre.parent_map
            /\ call.session \notin Range(pre.session_terminals)) =>
        /\ exc = "none"
        /\ ManagerUntouched

C17_Witness ==
    /\ Closed
    /\ call.session \notin DOMAIN pre.parent_map
    /\ call.session \notin Range(pre.session_terminals)
    /\ pre.session_terminals # <<>>
    /\ pre.current_session # None
    /\ ManagerUntouched

\* the process-exit notification of s was delivered and s is still live
Exiting(s) == s \in exited /\ (In(s, session_terminals) \/ s \in get_all_sessions)

\* s is in neither the tree nor the surface map
Gone(s) == ~In(s, session_terminals) /\ s \notin get_all_sessions

\* C15: under a running event loop every live session whose process-exit
\* notification was delivered is eventually in neither the session tree nor
\* the surface map, whatever other operations come in between
C15_ExitingLeadsToRemoved ==
    \A s \in 1..MaxLive : Exiting(s) ~> Gone(s)

C15_Witness ==
    /\ call.op = "idle_close"
    /\ call.session \in DOMAIN pre.parent_map
    /\ call.session \in Range(pre.session_terminals)
    /\ pre.children[call.session] # <<>>
    /\ Gone(call.session)

\* C12: no session tracked in the tree is one whose shell failed to start,
\* whether spawn_shell or the asynchronous completion reported the failure
C12_NoFailedSpawnTracked ==
    \A s \in get_all_sessions : spawn_state[s] # "failed"

\* the last call was a new_child / new_sibling that created a session
ChildCreated == call.op = "new_child" /\ ret # None
SiblingCreated == call.op = "new_sibling" /\ ret # None

\* the session the last call returned is tracked under parent, at the end of
\* parent's children (of the roots when parent is None)
AppendedUnder(parent) ==
    /\ ret \in get_all_sessions
    /\ ret \notin DOMAIN pre.parent_map
    /\ get_parent(ret) = parent
    /\ IF parent = None
       THEN root_nodes = pre.root_nodes \o <<ret>>
       ELSE children[parent] = pre.children[parent] \o <<ret>>

\* C13: with a current session S, new_child creates a session under S and
\* new_sibling one under get_parent(S) (a root when S is a root), appended
\* after the existing children (or roots) and with S's cwd; with no current
\* session both create a root
C13_ChildAndSiblingPlacement ==
    /\ (ChildCreated /\ pre.current_session # None) =>
          /\ AppendedUnder(pre.current_session)
          /\ cwd[ret] = cwd[pre.current_session]
    /\ (SiblingCreated /\ pre.current_session # None) =>
          /\ AppendedUnder(pre.parent_map[pre.current_session])
          /\ cwd[ret] = cwd[pre.current_session]
    /\ ((ChildCreated \/ SiblingCreated) /\ pre.current_session = None) =>
          AppendedUnder(None)

C13_Witness ==
    /\ SiblingCreated
    /\ pre.current_session # None
    /\ pre.parent_map[pre.current_session] # None
    /\ Len(children[pre.parent_map[pre.current_session]]) >= 2
    /\ cwd[ret] = cwd[pre.current_session]
    /\ cwd[ret] # cwd[pre.parent_map[pre.current_session]]
    /\ cwd[ret] # Home

\* the title handler ran for a session that has a surface
TitleHandled ==
    /\ call.op = "_on_terminal_title_changed"
    /\ call.session \in Range(pre.session_terminals)

\* C19: when the title handler runs and the terminal has no window title
\* (empty or absent), the session title is the short form of the session's
\* cwd, not a terminal title
C19_NoTitleFallsBackToCwd ==
    (TitleHandled /\ vte_title[call.session] = <<>>) =>
        title[call.session] = get_short_path_title(cwd[call.session])

\* the characters of a user or host name
NameChars == TitleChars \ {"@", ":", " ", "/"}

\* raw reads <user>@<host>: <path>, the ": " at position i
UserHostPathAt(raw, i) ==
    /\ i \in ColonSpaces(raw)
    /\ i + 2 <= Len(raw)
    /\ \A k \in (i + 2)..Len(raw) : raw[k] # " "
    /\ \E j \in 2..(i - 2) :
          /\ raw[j] = "@"
          /\ \A k \in 1..(i - 1) : k # j => raw[k] \in NameChars

UserHostPath(raw) == \E i \in 1..Len(raw) : UserHostPathAt(raw, i)

\* C20: the title handler sets the title '<shortPath> (<user>@<host>)' when
\* the window title reads '<user>@<host>: <path>', and every other
\* non-empty window title becomes the session title unchanged
C20_ReformatOnlyUserHostPath ==
    (TitleHandled /\ vte_title[call.session] # <<>>) =>
        LET raw == vte_title[call.session]
        IN IF UserHostPath(raw)
           THEN \E i \in 1..Len(raw) :
                   /\ UserHostPathAt(raw, i)
                   /\ title[call.session] =
                         get_short_path_title(SubSeq(raw, i + 2, Len(raw)))
                           \o <<" ", "(">> \o SubSeq(raw, 1, i - 1) \o <<")">>
           ELSE title[call.session] = raw

\* C18: once the sidebar has processed the notifications of a call, its
\* top-level rows are the tree's roots, the child rows of every tracked
\* session's row are its children, in order, and every tracked session has
\* its row
C18_SidebarMirrorsTree ==
    (sidebar.attached /\ SidebarDefined) =>
        /\ sidebar.rows[None] = get_roots
        /\ \A s \in get_all_sessions :
              /\ s \in sidebar.iters
              /\ s \in Shown(sidebar)
              /\ sidebar.rows[s] = get_children(s)

\* the session-changed callbacks the call invoked for s
ChangedEvents(evs, s) ==
    {i \in 1..Len(evs) : evs[i].cb = "changed" /\ evs[i].session = s}

\* C21: a title-change notification for a session with a surface invokes
\* the session-changed callback exactly once if the handler changed the
\* session's title or cwd and not at all if it changed neither; for a session
\* without a surface it changes neither and invokes no callback
C21_ChangedCallbackIffChanged ==
    [][call'.op = "_on_terminal_title_changed" =>
          LET s == call'.session
              changed == title'[s] # title[s] \/ cwd'[s] # cwd[s]
          IN IF In(s, session_terminals)
             THEN /\ Cardinality(ChangedEvents(events', s)) = (IF changed THEN 1 ELSE 0)
                  /\ Len(events') = Cardinality(ChangedEvents(events', s))
             ELSE /\ ~changed
                  /\ events' = <<>>]_vars

\* a notification that changed the title away from the short form of the cwd
C21_Witness ==
    /\ TitleHandled
    /\ events = <<Event("changed", call.session, <<>>, None)>>
    /\ title[call.session] # get_short_path_title(cwd[call.session])
    /\ title[call.session] # vte_title[call.session]

\* the last call was select_next_session / select_previous_session
Stepped == call.op \in {"select_next_session", "select_previous_session"}

StepOf(op) == IF op = "select_next_session" THEN 1 ELSE -1

\* n steps from current, one after the other
RECURSIVE Steps(_, _, _, _)
Steps(all_sessions, current, step, n) ==
    IF n = 0 THEN current
    ELSE Steps(all_sessions, step_target(all_sessions, current, step), step, n - 1)

\* C22: with n >= 2 surfaces and the current session at index i of the
\* surface map's order, select_next_session makes the session at index
\* (i+1) mod n current and select_previous_session the one at (i-1) mod n, so
\* that the opposite step leads back and n steps return to the start; with no
\* current session they select the first and the last entry; with n <= 1
\* they change nothing
C22_NextPreviousCycle ==
    Stepped =>
        LET all_sessions == pre.session_terminals
            n == Len(all_sessions)
            step == StepOf(call.op)
        IN /\ session_terminals = all_sessions
           /\ IF n <= 1 THEN ManagerUntouched /\ events = <<>>
              ELSE IF pre.current_session = None
              THEN current_session = (IF step = 1 THEN all_sessions[1] ELSE all_sessions[n])
              ELSE /\ \E i \in 0..(n - 1) :
                        /\ all_sessions[i + 1] = pre.current_session
                        /\ \E j \in 0..(n - 1) :
                              /\ j = i + step \/ j = i + step - n \/ j = i + step + n
                              /\ current_session = all_sessions[j + 1]
                   /\ step_target(session_terminals, current_session, -step)
                         = pre.current_session
                   /\ Steps(session_terminals, current_session, step, n - 1)
                         = pre.current_session

\* select_previous_session from the first of three surfaces wraps to the last
C22_Witness ==
    /\ call.op = "select_previous_session"
    /\ Len(pre.session_terminals) = 3
    /\ pre.current_session = pre.session_terminals[1]
    /\ current_session = pre.session_terminals[3]
    /\ pre.session_terminals # root_nodes

\* s was made a key of the dict while no equal session was one
OwnKey(s) == \E i \in 1..Len(table) : table[i].key = s

\* C23: two sessions compare equal and hash equal exactly when their pid and
\* pty_fd both match, whatever their title and cwd; a session that was made
\* a key of a dict is still found under that key after its title or cwd has
\* been changed
C23_EqualityByPidAndPty ==
    /\ \A s, other \in Objects :
          (session_eq(s, other) /\ session_hash(s) = session_hash(other))
              <=> ident[s] = ident[other]
    /\ \A s \in Objects : OwnKey(s) => dict_contains(table, s)
    /\ (call.op = "dict_contains" /\ OwnKey(call.session)) => found = call.session

\* the title of a key of the dict has just been changed, and the key is
\* found; the other session is equal to it and has another title and cwd
C23_Witness ==
    /\ call.op = "set_title"
    /\ OwnKey(call.session)
    /\ dict_contains(table, call.session)
    /\ ident[1] = ident[2]
    /\ title[1] # title[2]
    /\ cwd[1] # cwd[2]

\* the components of path: the longest stretches without a slash, each as
\* the pair of its first and last position
Runs(path) ==
    {r \in (1..Len(path)) \X (1..Len(path)) :
        /\ r[1] <= r[2]
        /\ \A k \in r[1]..r[2] : path[k] # "/"
        /\ r[1] = 1 \/ path[r[1] - 1] = "/"
        /\ r[2] = Len(path) \/ path[r[2] + 1] = "/"}

\* the last component of path and the one before it
LastRun(path) == CHOOSE r \in Runs(path) : \A q \in Runs(path) : q[1] <= r[1]
LastButOneRun(path) ==
    CHOOSE r \in Runs(path) \ {LastRun(path)} :
        \A q \in Runs(path) \ {LastRun(path)} : q[1] <= r[1]

RunText(path, r) == SubSeq(path, r[1], r[2])

\* the sessions built so far
Built == 1..session_counter

Surfaced == Range(session_terminals)

\* C25: after any sequence of manager operations (creations, closes,
\* selections, and closes queued by process exit) the sessions tracked in the
\* tree are the sessions with a registered surface
C25_TreeIsSurfaces ==
    get_all_sessions = Surfaced

\* the current session, with children, has just been closed and two
\* sessions are left
C25_Witness ==
    /\ call.op = "close_current_session"
    /\ call.session # None
    /\ ClosedKids # <<>>
    /\ Cardinality(get_all_sessions) = 2
    /\ get_all_sessions = Surfaced
    /\ call.session \notin Surfaced

\* s is tracked in the tree and has a registered surface
Live(s) == s \in get_all_sessions /\ In(s, session_terminals)

\* the step is the process-exit handler's, and it leaves the tree, the
\* surface map and current_session alone, invokes no callback and puts one
\* close of its session at the end of the queue
ExitOnlyEnqueues ==
    call'.op = "_on_terminal_exited" =>
        /\ UNCHANGED <<treeVars, session_terminals, current_session>>
        /\ events' = <<>>
        /\ idle_queue' = Append(idle_queue, call'.session)

\* the step is not a close of s
NotCloseOf(s) == ~(call'.op \in CloseOps /\ call'.session = s)

\* C26 as stated: the process-exit handler changes neither tree, surface map
\* nor current_session and invokes no callback, it only queues one close of
\* the session, and in every state from the notification to the turn that
\* runs the queued close the session is tracked and registered
C26_ExitOnlyEnqueues_UntilTurn ==
    /\ [][ExitOnlyEnqueues]_vars
    /\ [](\A s \in Sessions : In(s, idle_queue) => Live(s))

\* C26 amended: the same of the handler, and while the close is queued no
\* operation other than a close of the session takes the session out of the
\* tree or the surface map
C26_ExitOnlyEnqueues ==
    /\ [][ExitOnlyEnqueues]_vars
    /\ [][\A s \in Sessions :
              (In(s, idle_queue) /\ Live(s) /\ NotCloseOf(s)) => Live(s)']_vars

\* a selection of a session whose close is queued finds it registered
C26_Witness ==
    /\ call.op = "select_session"
    /\ In(call.session, idle_queue)
    /\ call.session \in exited
    /\ pre.current_session # call.session
    /\ current_session = call.session
    /\ Live(call.session)

\* C27: for each session the session-closed callback is invoked at most
\* once over the whole run, also when a close by the user and the close
\* queued by the session's process exit both target it, in either order
C27_ClosedAtMostOnce ==
    \A s \in Sessions : closed_calls[s] <= 1

\* the last call was a new_session(parent, ...) that returned a session
Created == call.op = "new_session" /\ ret # None

\* C28: on a successful new_session(parent, ...) the session-created
\* callback is invoked for a session that is by then tracked in the tree with
\* parent as its parent, has its surface registered and is current_session,
\* and new_session returns that session
C28_CreatedCallbackSeesSession ==
    Created =>
        /\ events = <<Event("created", ret, <<>>, None)>>
        /\ Len(seen) = 1
        /\ ret \notin DOMAIN pre.parent_map
        /\ ret \in DOMAIN seen[1].parent_map
        /\ seen[1].parent_map[ret] = call.parent
        /\ In(ret, seen[1].session_terminals)
        /\ seen[1].current_session = ret

\* a session created under a parent that was not the current session
C28_Witness ==
    /\ Created
    /\ call.parent # None
    /\ pre.current_session # call.parent
    /\ Len(seen) = 1
    /\ seen[1].parent_map[ret] = call.parent
    /\ seen[1].current_session = ret

\* the last call closed the current session and another session is current
Replaced ==
    /\ Closed
    /\ pre.current_session = call.session
    /\ current_session # None

\* v is a tree from which the closed session is gone and in which its
\* children have its former parent
AfterAdoption(v) ==
    /\ call.session \notin DOMAIN v.parent_map
    /\ \A c \in Range(ClosedKids) :
          c \in DOMAIN v.parent_map /\ v.parent_map[c] = ClosedParent

\* C29: when close_session(S) closes the current session and selects a
\* replacement, the session-selected callback for the replacement is invoked
\* before the session-closed callback for S, both in that call and both once
\* the tree has removed S and adopted its children
C29_SelectedBeforeClosed ==
    Replaced =>
        /\ Len(events) = 2 /\ Len(seen) = 2
        /\ events[1] = Event("selected", current_session, <<>>, None)
        /\ events[2] = Event("closed", call.session, ClosedKids, ClosedParent)
        /\ AfterAdoption(seen[1])
        /\ AfterAdoption(seen[2])

\* a current root with two children was closed and its first child selected
C29_Witness ==
    /\ Replaced
    /\ ClosedParent = None
    /\ Len(ClosedKids) = 2
    /\ current_session = ClosedKids[1]
    /\ Len(events) = 2
    /\ events[1].cb = "selected"
    /\ AfterAdoption(seen[2])

====
